---- MODULE Spec2Model ----
(***************************************************************************)
(* Model of gen.py: the generator of a tree of JavaScript modules from an  *)
(* L-system (Options, Module, Benchmark) and of its export pipeline.       *)
(*                                                                         *)
(* A string is a sequence of one-character strings, so that the character  *)
(* level operations of the source (replace, split, comparison) are         *)
(* computed and not assumed.  A path is the tuple pathlib calls `parts`:   *)
(* an absolute path starts with the part "/".                              *)
(***************************************************************************)
EXTENDS Integers, Sequences, FiniteSets, TLC

(* ------------------------------ bounds --------------------------------- *)
MaxDepth == 3
MaxBranches == 2
MaxSizeK == 2
MaxModules == 21

(* ----------------------------- characters ------------------------------ *)
ROOT_AXIOM == "A"

DigitChars == <<"0", "1", "2", "3", "4", "5", "6", "7", "8", "9">>

\* Code points of the characters that occur in module paths.
Ord(c) ==
  CASE c = "." -> 46 [] c = "/" -> 47
    [] c = "0" -> 48 [] c = "1" -> 49 [] c = "2" -> 50 [] c = "3" -> 51
    [] c = "4" -> 52 [] c = "5" -> 53 [] c = "6" -> 54 [] c = "7" -> 55
    [] c = "8" -> 56 [] c = "9" -> 57
    [] c = "A" -> 65 [] c = "B" -> 66 [] c = "C" -> 67 [] c = "_" -> 95
    [] c = "j" -> 106 [] c = "m" -> 109 [] c = "s" -> 115
    [] c = "o" -> 111 [] c = "t" -> 116 [] c = "u" -> 117

\* str(int) for a non-negative integer.
RECURSIVE IntStr(_)
IntStr(n) == IF n < 10 THEN <<DigitChars[n + 1]>>
             ELSE IntStr(n \div 10) \o <<DigitChars[(n % 10) + 1]>>

\* The text of a character sequence, as one string.
RECURSIVE Text(_)
Text(s) == IF s = <<>> THEN "" ELSE Head(s) \o Text(Tail(s))

\* str.replace(old, new) for one-character old and new.
StrReplace(s, old, new) == [i \in 1..Len(s) |-> IF s[i] = old THEN new ELSE s[i]]

\* Python's < on strings: lexicographic by code point.
RECURSIVE StrLess(_, _)
StrLess(a, b) ==
  IF b = <<>> THEN FALSE
  ELSE IF a = <<>> THEN TRUE
  ELSE IF Head(a) # Head(b) THEN Ord(Head(a)) < Ord(Head(b))
  ELSE StrLess(Tail(a), Tail(b))

\* Python's < on tuples of strings.
RECURSIVE TupleLess(_, _)
TupleLess(p, q) ==
  IF q = <<>> THEN FALSE
  ELSE IF p = <<>> THEN TRUE
  ELSE IF Head(p) # Head(q) THEN StrLess(Head(p), Head(q))
  ELSE TupleLess(Tail(p), Tail(q))

(* ------------------------------- pathlib ------------------------------- *)
Slash == <<"/">>
MjsSuffix == <<".", "m", "j", "s">>

\* The components of a string between slashes, empty components dropped.
RECURSIVE SplitParts(_, _)
SplitParts(s, cur) ==
  IF s = <<>> THEN (IF cur = <<>> THEN <<>> ELSE <<cur>>)
  ELSE IF Head(s) = "/"
       THEN (IF cur = <<>> THEN <<>> ELSE <<cur>>) \o SplitParts(Tail(s), <<>>)
       ELSE SplitParts(Tail(s), Append(cur, Head(s)))

\* Path(s).parts
PathOf(s) == IF s # <<>> /\ Head(s) = "/" THEN <<Slash>> \o SplitParts(s, <<>>)
             ELSE SplitParts(s, <<>>)

IsAbsolute(p) == p # <<>> /\ Head(p) = Slash

\* p / s for a path p and a string s: an absolute s replaces p.
PathJoin(p, s) == IF s # <<>> /\ Head(s) = "/" THEN PathOf(s) ELSE p \o PathOf(s)

\* p / q for two paths.
PathJoinPath(p, q) == IF IsAbsolute(q) THEN q ELSE p \o q

\* p.parent
PathParent(p) == IF p = <<>> \/ p = <<Slash>> THEN p ELSE SubSeq(p, 1, Len(p) - 1)

\* str(p)
RECURSIVE JoinSlash(_)
JoinSlash(parts) ==
  IF parts = <<>> THEN <<>>
  ELSE IF Len(parts) = 1 THEN Head(parts)
  ELSE Head(parts) \o <<"/">> \o JoinSlash(Tail(parts))

PathStr(p) == IF p = <<>> THEN <<".">>
              ELSE IF IsAbsolute(p) THEN <<"/">> \o JoinSlash(Tail(p))
              ELSE JoinSlash(p)

(* ------------------------------- Options ------------------------------- *)
EmptyMap == [x \in {} |-> 0]

RECURSIVE Repeat(_, _)
Repeat(c, n) == IF n = 0 THEN <<>> ELSE <<c>> \o Repeat(c, n - 1)

\* validate_options: without --rules the rule is "A:" + "A" * branches.
DefaultRules(branches) == ROOT_AXIOM :> Repeat("A", branches)

\* Rule sets given with --rules; each has a rule for the axiom.
ExplicitRules ==
  { ("A" :> <<"A", "B">>) @@ ("B" :> <<"B", "B", "B">>),
    ("A" :> <<"B">>),
    ("A" :> <<"B">>) @@ ("B" :> Repeat("C", 11)),
    ("A" :> <<"B">>) @@ ("B" :> <<"/">>) @@ ("/" :> <<"A">>),
    ("A" :> <<"/">>) @@ ("/" :> <<"/">>) }

RuleSets == {DefaultRules(b) : b \in 1..MaxBranches} \cup ExplicitRules

\* parse_sizes: the byte count of one size string, n followed by a suffix.
ParseSize(n, suffix) ==
  IF suffix = "k" THEN n * 1024
  ELSE IF suffix = "m" THEN n * 1024 * 1024
  ELSE n * 1024

SizeTables ==
  {EmptyMap}
    \cup {("A" :> ParseSize(n, "k")) : n \in 1..MaxSizeK}
    \cup {("B" :> ParseSize(1, "")) @@ ("C" :> ParseSize(1, "k"))
            @@ ("/" :> ParseSize(2, "k"))}

\* The default of --out.
OutName == <<"o", "u", "t">>

\* The number of modules the rules expand to in `levels` levels.
RECURSIVE TreeSize(_, _, _)
RECURSIVE TreeSizeOf(_, _, _)
TreeSizeOf(rules, successors, levels) ==
  IF successors = <<>> THEN 0
  ELSE 1 + TreeSize(rules, Head(successors), levels - 1)
         + TreeSizeOf(rules, Tail(successors), levels)

TreeSize(rules, symbol, levels) ==
  IF levels = 0 \/ symbol \notin DOMAIN rules THEN 0
  ELSE TreeSizeOf(rules, rules[symbol], levels)

\* The option values of the runs, for trees of at most MaxModules modules.
OptionsSet ==
  {o \in [rules : RuleSets, sizes : SizeTables, depth : 0..MaxDepth,
          dynamic_imports : BOOLEAN, out : {OutName}] :
     TreeSize(o.rules, ROOT_AXIOM, o.depth) <= MaxModules}

\* dict.get(key, default)
DictGet(d, key, default) == IF key \in DOMAIN d THEN d[key] ELSE default

(* -------------------------------- Module ------------------------------- *)
\* Module.__init__; id is the tuple of sibling indices from the root, and
\* parent is the parent's record, or NoParent for the root.
NoParent == [id |-> <<-1>>]

Module(id, simple_name, parent, depth, index, size, dynamic_import) ==
  LET name == IF parent.id # NoParent.id
              THEN StrReplace(PathStr(PathJoin(parent.submodule_path, simple_name)),
                              "/", "_")
              ELSE simple_name
      path == IF parent.id # NoParent.id
              THEN PathJoin(parent.submodule_path, name \o MjsSuffix)
              ELSE PathOf(name \o MjsSuffix)
  IN [id |-> id, symbol |-> Head(simple_name), simple_name |-> simple_name,
      parent |-> parent.id, depth |-> depth, index |-> index, size |-> size,
      dynamic_import |-> dynamic_import, name |-> name, path |-> path,
      submodule_path |-> PathJoin(PathParent(path), simple_name)]

\* Module.expand_recurse: the modules appended to the accumulator, in order.
RECURSIVE expand_recurse(_, _, _)
RECURSIVE expand_loop(_, _, _, _)
expand_loop(self, expansion, index, options) ==
  IF index >= Len(expansion) THEN <<>>
  ELSE LET symbol == expansion[index + 1]
           module == Module(Append(self.id, index), <<symbol>> \o IntStr(index),
                            self, self.depth + 1, index,
                            DictGet(options.sizes, symbol, 0),
                            options.dynamic_imports)
       IN <<module>> \o expand_recurse(module, symbol, options)
            \o expand_loop(self, expansion, index + 1, options)

expand_recurse(self, symbol, options) ==
  IF self.depth = options.depth THEN <<>>
  ELSE IF symbol \notin DOMAIN options.rules THEN <<>>
  ELSE expand_loop(self, options.rules[symbol], 0, options)

\* The two early returns of expand_recurse return None, not the accumulator.
expand_returns_None(self, symbol, options) ==
  self.depth = options.depth \/ symbol \notin DOMAIN options.rules

\* A variant that takes every module to have children.
has_children_always(self) == TRUE

\* Module.has_children
has_children(self) == Len(self.children) > 0

\* A variant that gives the root the size entry of its symbol.
RootModule_sized(options) ==
  Module(<<>>, <<ROOT_AXIOM>>, NoParent, 0, 0,
         DictGet(options.sizes, ROOT_AXIOM, 0), options.dynamic_imports)

\* The heap of Module objects after expansion: id -> record with children.
RootModule(options) ==
  Module(<<>>, <<ROOT_AXIOM>>, NoParent, 0, 0, 0, options.dynamic_imports)

ChildIds(id, created) ==
  LET n == Cardinality({i \in 1..Len(created) : created[i].parent = id})
  IN [k \in 1..n |-> Append(id, k - 1)]

BuildHeap(options) ==
  LET root    == RootModule(options)
      created == expand_recurse(root, ROOT_AXIOM, options)
      all     == <<root>> \o created
      ids     == {all[i].id : i \in 1..Len(all)}
      rec(id) == CHOOSE r \in {all[i] : i \in 1..Len(all)} : r.id = id
  IN [id \in ids |-> [children |-> ChildIds(id, created)] @@ rec(id)]

(* ----------------------------- Module.export --------------------------- *)
RECURSIVE JoinText(_, _)
JoinText(items, sep) ==
  IF items = <<>> THEN ""
  ELSE IF Len(items) = 1 THEN Head(items)
  ELSE Head(items) \o sep \o JoinText(Tail(items), sep)

\* Module.create_dynamic_imports
create_dynamic_imports(self, heap) ==
  [k \in 1..Len(self.children) |->
     LET module == heap[self.children[k]]
     IN "import('./" \o Text(self.simple_name) \o "/" \o Text(module.name)
          \o ".mjs').then(m => m.f_" \o Text(module.name) \o "())"]

\* Module.write_static_imports: the lines written and the operations returned.
static_import_lines(self, heap) ==
  [k \in 1..Len(self.children) |->
     LET module == heap[self.children[k]]
     IN "import {f_" \o Text(module.name) \o "} from './" \o Text(self.simple_name)
          \o "/" \o Text(module.name) \o ".mjs'\n"]

write_static_imports(self, heap) ==
  [k \in 1..Len(self.children) |-> "f_" \o Text(heap[self.children[k]].name) \o "()"]

\* The filler of the helper: the constants of Module.export.
random_digits == 10
instruction_length == (3 + random_digits + 1) + (3 + random_digits + 2)
min_range == 10 ^ (random_digits - 1)

\* The decimal texts random.randint(min_range, max_range) can give: the
\* least and the greatest one (10**random_digits - 1 is all nines).
NumberLiterals == {Text(IntStr(min_range)), Text(Repeat("9", random_digits))}

\* One filler line: f"a+={number};a-={number};\n"
FillerLine(number) == "a+=" \o number \o ";a-=" \o number \o ";\n"

\* A variant that does not stop at 0.
RangeLen_signed(n) == n

\* len(range(n))
RangeLen(n) == IF n > 0 THEN n ELSE 0

\* The number of iterations of the filler loop.
filler_count(size, operations) ==
  RangeLen((size - Len(operations) * 2) \div instruction_length)

\* The content Module.export writes for one module.
Artifact(self, heap) ==
  LET ops == IF self.dynamic_import THEN create_dynamic_imports(self, heap)
             ELSE write_static_imports(self, heap)
      operations == IF self.dynamic_import THEN JoinText(ops, ",\n    ")
                    ELSE JoinText(Append(ops, "a"), "+")
  IN [imports     |-> IF self.dynamic_import THEN <<>>
                      ELSE static_import_lines(self, heap),
      async       |-> self.dynamic_import,
      entry       |-> "f_" \o Text(self.name),
      calls       |-> ops,
      operations  |-> operations,
      call_helper |-> self.size # 0,
      helper      |-> self.size # 0,
      filler      |-> IF self.size # 0 THEN filler_count(self.size, operations)
                      ELSE 0]

(* ------------------- the generated entry functions --------------------- *)
\* One filler line: a+=number;a-=number;
LineEffect(a, number) == (a + number) - number

\* The filler lines of helper(), run in order; a line that leaves a as it
\* was does so again, so the remaining lines need not be run.
RECURSIVE FillerLoop(_, _, _)
FillerLoop(a, lines, number) ==
  IF lines = 0 THEN a
  ELSE LET b == LineEffect(a, number)
       IN IF b = a THEN a ELSE FillerLoop(b, lines - 1, number)

\* A variant whose helper returns a, not a+100.
helper_inert(filler) == FillerLoop(1, filler, min_range)

\* helper(): let a=1; the filler; return a+100
helper(filler) == FillerLoop(1, filler, min_range) + 100

RECURSIVE SumSeq(_)
SumSeq(xs) == IF xs = <<>> THEN 0 ELSE Head(xs) + SumSeq(Tail(xs))

\* for (let result of results) a += result;
RECURSIVE AddAll(_, _)
AddAll(a, results) ==
  IF results = <<>> THEN a ELSE AddAll(a + Head(results), Tail(results))

\* The value the entry function f_<name> of the written artifact returns;
\* evaluate_all is the truth of document.evaluate_all when it runs.
RECURSIVE EntryValue(_, _, _)
EntryValue(id, heap, evaluate_all) ==
  LET self    == heap[id]
      art     == Artifact(self, heap)
      a       == IF art.call_helper /\ evaluate_all THEN helper(art.filler) ELSE 1
      results == [k \in 1..Len(art.calls) |->
                    EntryValue(self.children[k], heap, evaluate_all)]
  IN IF art.async THEN AddAll(a, results)
     ELSE SumSeq(results) + a

(* --------------------------- the file system --------------------------- *)
Cwd == <<>>

DirExists(d, dirs) == d = Cwd \/ d = <<Slash>> \/ d \in dirs

\* Every prefix of a path: what mkdir(parents=True) creates.
Prefixes(p) == {SubSeq(p, 1, k) : k \in 1..Len(p)}

OutDir(options) == PathOf(options.out)

\* Directories that may exist before the run.
CandidateDirs ==
  { PathOf(OutName),
    PathOf(OutName \o <<"/", "A">>),
    PathOf(OutName \o <<"/", "A", "/", "A", "0">>),
    PathOf(<<"/", "0">>) }

PreExisting ==
  {D \in SUBSET CandidateDirs : \A d \in D : DirExists(PathParent(d), D)}

\* A variant with exist_ok=True.
mkdir_exist_ok(d, dirs) == FALSE

\* Path.mkdir() without exist_ok raises FileExistsError for an existing path.
mkdir_raises(d, dirs) == DirExists(d, dirs)

(* ------------------------------ Benchmark ------------------------------ *)
\* A variant that builds the bundles in both modes.
always_bundle(options) == "build_bundles"

\* Benchmark.export: build_bundles is skipped with dynamic imports.
after_export_modules(options) ==
  IF ~options.dynamic_imports THEN "build_bundles" ELSE "export_html"

\* The sort key of export_modules: (len(m.path.parts), m.path.parts)
KeyLess(a, b) ==
  \/ Len(a.path) < Len(b.path)
  \/ Len(a.path) = Len(b.path) /\ TupleLess(a.path, b.path)

\* list.sort is stable: a module comes after the modules of a lesser key
\* and after the modules of an equal key that were before it in the list.
Before(j, i, ms, heap) ==
  \/ KeyLess(heap[ms[j]], heap[ms[i]])
  \/ ~KeyLess(heap[ms[i]], heap[ms[j]]) /\ j < i

SortModules(ms, heap) ==
  LET n    == Len(ms)
      rank == [i \in 1..n |-> 1 + Cardinality({j \in 1..n : Before(j, i, ms, heap)})]
  IN [p \in 1..n |-> ms[CHOOSE i \in 1..n : rank[i] = p]]

\* modules[:count]
Prefix(s, count) == SubSeq(s, 1, IF count < Len(s) THEN count ELSE Len(s))

\* sum(map(lambda m: m.size, self.modules)), over modules[lo..hi]
RECURSIVE SumSizesIn(_, _, _, _)
SumSizesIn(ms, heap, lo, hi) ==
  IF lo > hi THEN 0
  ELSE IF lo = hi THEN heap[ms[lo]].size
  ELSE SumSizesIn(ms, heap, lo, (lo + hi) \div 2)
         + SumSizesIn(ms, heap, ((lo + hi) \div 2) + 1, hi)

SumSizes(ms, heap) == SumSizesIn(ms, heap, 1, Len(ms))

\* The file names of the pages and bundles, as character sequences.
UnbundledHtml == <<"u", "n", "b", "u", "n", "d", "l", "e", "d", ".", "h", "t", "m", "l">>
ModulepreloadHtml == <<"m", "o", "d", "u", "l", "e", "p", "r", "e", "l", "o", "a", "d", ".", "h", "t", "m", "l">>
ScriptPreloadHtml == <<"s", "c", "r", "i", "p", "t", "-", "p", "r", "e", "l", "o", "a", "d", ".", "h", "t", "m", "l">>
RollupHtml == <<"r", "o", "l", "l", "u", "p", ".", "h", "t", "m", "l">>
WebbundleHtml == <<"w", "e", "b", "b", "u", "n", "d", "l", "e", ".", "h", "t", "m", "l">>
IndexHtml == <<"i", "n", "d", "e", "x", ".", "h", "t", "m", "l">>
BundledWbn == <<"b", "u", "n", "d", "l", "e", "d", ".", "w", "b", "n">>
BundledMjs == <<"b", "u", "n", "d", "l", "e", "d", ".", "m", "j", "s">>

VARIABLES options, pc, heap, modules, modules_is_None, stack, dirs, files,
          benchmarks, log, error, preexisting

vars == <<options, pc, heap, modules, modules_is_None, stack, dirs, files,
          benchmarks, log, error, preexisting>>

NoFiles == [p \in {} |-> 0]

Init ==
  /\ options \in OptionsSet
  /\ dirs \in PreExisting
  /\ preexisting = dirs
  /\ pc = "start"
  /\ heap = [id \in {} |-> 0]
  /\ modules = <<>>
  /\ modules_is_None = TRUE
  /\ stack = <<>>
  /\ files = NoFiles
  /\ benchmarks = <<>>
  /\ log = <<>>
  /\ error = "none"

Raise(exc) == pc' = "failed" /\ error' = exc

\* Benchmark.create_module_tree (called from Benchmark.__init__)
create_module_tree ==
  /\ pc = "start"
  /\ heap' = BuildHeap(options)
  /\ LET root == RootModule(options)
     IN /\ modules_is_None' = expand_returns_None(root, ROOT_AXIOM, options)
        /\ modules' = LET ms == expand_recurse(root, ROOT_AXIOM, options)
                      IN [i \in 1..Len(ms) |-> ms[i].id]
  /\ pc' = "created"
  /\ UNCHANGED <<preexisting, options, stack, dirs, files, benchmarks, log, error>>

\* Benchmark.export, first statement: out_path.mkdir(parents=True, exist_ok=True)
export ==
  /\ pc = "created"
  /\ dirs' = dirs \cup Prefixes(OutDir(options))
  /\ log' = Append(log, [op |-> "makedirs", path |-> OutDir(options), id |-> <<>>])
  /\ stack' = <<<<>>>>
  /\ pc' = "export_modules"
  /\ UNCHANGED <<preexisting, options, heap, modules, modules_is_None, files, benchmarks, error>>

\* Module.export of the module on top of the recursion; the recursive calls
\* for its children are the following steps, in order.
Module_export ==
  /\ pc = "export_modules"
  /\ stack # <<>>
  /\ LET self   == heap[Head(stack)]
         target == PathJoinPath(OutDir(options), self.path)
         subdir == PathJoinPath(OutDir(options), self.submodule_path)
         wrote  == Append(log, [op |-> "write", path |-> target, id |-> self.id])
     IN IF ~DirExists(PathParent(target), dirs)
        THEN /\ Raise("FileNotFoundError")
             /\ UNCHANGED <<files, dirs, log, stack>>
        ELSE /\ files' = (target :> Artifact(self, heap)) @@ files
             /\ IF ~has_children(self)
                THEN /\ stack' = Tail(stack)
                     /\ log' = wrote
                     /\ UNCHANGED <<dirs, pc, error>>
                ELSE IF mkdir_raises(subdir, dirs)
                THEN /\ Raise("FileExistsError")
                     /\ log' = wrote
                     /\ UNCHANGED <<dirs, stack>>
                ELSE IF ~DirExists(PathParent(subdir), dirs)
                THEN /\ Raise("FileNotFoundError")
                     /\ log' = wrote
                     /\ UNCHANGED <<dirs, stack>>
                ELSE /\ dirs' = dirs \cup {subdir}
                     /\ log' = Append(wrote, [op |-> "mkdir", path |-> subdir,
                                              id |-> self.id])
                     /\ stack' = self.children \o Tail(stack)
                     /\ UNCHANGED <<pc, error>>
  /\ UNCHANGED <<preexisting, options, heap, modules, modules_is_None, benchmarks>>

\* Benchmark.export_modules after start_module.export returned:
\* len(self.modules), then the sort; and the branch of Benchmark.export.
export_modules ==
  /\ pc = "export_modules"
  /\ stack = <<>>
  /\ IF modules_is_None
     THEN /\ Raise("TypeError")
          /\ UNCHANGED modules
     ELSE /\ modules' = SortModules(modules, heap)
          /\ pc' = after_export_modules(options)
          /\ UNCHANGED error
  /\ UNCHANGED <<preexisting, options, heap, modules_is_None, stack, dirs, files, benchmarks, log>>

\* Benchmark.build_bundles: two external commands, each of which may fail.
build_bundles ==
  /\ pc = "build_bundles"
  /\ LET wbn_path    == PathJoin(OutDir(options), BundledWbn)
         bundle_path == PathJoin(OutDir(options), BundledMjs)
         module_path == PathJoin(OutDir(options), <<"A">> \o MjsSuffix)
         gen    == [op |-> "gen-bundle", path |-> wbn_path, id |-> <<>>]
         rollup == [op |-> "rollup", path |-> bundle_path, id |-> <<>>]
     IN \E failing \in {"none", "gen-bundle", "rollup"} :
          IF failing = "gen-bundle"
          THEN /\ Raise("CalledProcessError")
               /\ log' = Append(log, gen)
               /\ UNCHANGED files
          ELSE IF failing = "rollup"
          THEN /\ Raise("CalledProcessError")
               /\ log' = log \o <<gen, rollup>>
               /\ files' = (wbn_path :> [bundle_of |-> DOMAIN files]) @@ files
          ELSE /\ log' = log \o <<gen, rollup>>
               /\ files' = (wbn_path :> [bundle_of |-> DOMAIN files])
                             @@ (bundle_path :> [entry_module |-> module_path])
                             @@ files
               /\ pc' = "export_html"
               /\ UNCHANGED error
  /\ UNCHANGED <<preexisting, options, heap, modules, modules_is_None, stack, dirs, benchmarks>>

\* Benchmark.output_headers
output_headers(prefetch_count) ==
  LET ms == Prefix(modules, prefetch_count)
  IN [k \in 1..Len(ms) |->
        "  <link rel=\"modulepreload\" href=\"" \o Text(PathStr(heap[ms[k]].path))
          \o "\">"]

\* Benchmark.output_scripts
output_scripts(preload_count) ==
  LET ms == Prefix(modules, preload_count)
  IN [k \in 1..Len(ms) |->
        "  <script type=\"module\" src=\"" \o Text(PathStr(heap[ms[k]].path))
          \o "\"></script>"]

\* Benchmark.output_info: the values substituted, before formatting.
output_info ==
  [rules |-> options.rules, sizes |-> options.sizes, depth |-> options.depth,
   module_count |-> Len(modules), size_sum |-> SumSizes(modules, heap)]

\* path.relative_to(out_path)
RelativeTo(path, base) == SubSeq(path, Len(base) + 1, Len(path))

\* Benchmark.output_benchmark_list
output_benchmark_list(out_path, paths) ==
  [k \in 1..Len(paths) |->
     "  <li><a href=\"" \o Text(PathStr(RelativeTo(paths[k], out_path))) \o "\">"
       \o Text(paths[k][Len(paths[k])]) \o "</a></li>"]

WritePage(path, content) ==
  /\ files' = (path :> content) @@ files
  /\ log' = Append(log, [op |-> "page", path |-> path, id |-> <<>>])

\* Benchmark.export_benchmark, for the three calls of export_html in order.
export_benchmark ==
  /\ pc = "export_html"
  /\ Len(benchmarks) < 3
  /\ LET file_name == IF Len(benchmarks) = 0 THEN UnbundledHtml
                      ELSE IF Len(benchmarks) = 1 THEN ModulepreloadHtml
                      ELSE ScriptPreloadHtml
         prefetch_count == IF Len(benchmarks) = 1 THEN Len(modules) ELSE 0
         preload_count  == IF Len(benchmarks) = 2 THEN Len(modules) ELSE 0
         path == PathJoin(OutDir(options), file_name)
     IN /\ WritePage(path, [headers |-> output_headers(prefetch_count),
                            info    |-> output_info,
                            scripts |-> output_scripts(preload_count),
                            module  |-> "./A.mjs"])
        /\ benchmarks' = Append(benchmarks, path)
  /\ UNCHANGED <<preexisting, options, pc, heap, modules, modules_is_None, stack, dirs, error>>

\* Benchmark.export_bundled
export_bundled ==
  /\ pc = "export_html"
  /\ Len(benchmarks) = 3
  /\ ~options.dynamic_imports
  /\ LET path == PathJoin(OutDir(options), RollupHtml)
     IN /\ WritePage(path, [headers |-> <<>>, info |-> output_info,
                            scripts |-> <<>>, module |-> "./bundled.mjs"])
        /\ benchmarks' = Append(benchmarks, path)
  /\ UNCHANGED <<preexisting, options, pc, heap, modules, modules_is_None, stack, dirs, error>>

\* Benchmark.export_bundled_wbn
export_bundled_wbn ==
  /\ pc = "export_html"
  /\ Len(benchmarks) = 4
  /\ ~options.dynamic_imports
  /\ LET path == PathJoin(OutDir(options), WebbundleHtml)
     IN /\ WritePage(path,
                     [headers |-> <<"  <script type=\"webbundle\"> { \"source\": \"bundled.wbn\", \"scopes\": [\"./\"] } </script>">>,
                      info |-> output_info, scripts |-> <<>>,
                      module |-> "./A.mjs"])
        /\ benchmarks' = Append(benchmarks, path)
  /\ UNCHANGED <<preexisting, options, pc, heap, modules, modules_is_None, stack, dirs, error>>

\* Benchmark.export_index, the last statement of export_html.
export_index ==
  /\ pc = "export_html"
  /\ Len(benchmarks) = (IF options.dynamic_imports THEN 3 ELSE 5)
  /\ WritePage(PathJoin(OutDir(options), IndexHtml),
               [info |-> output_info,
                benchmarks |-> output_benchmark_list(OutDir(options), benchmarks)])
  /\ pc' = "done"
  /\ UNCHANGED <<preexisting, options, heap, modules, modules_is_None, stack, dirs, benchmarks,
                 error>>

Next ==
  \/ create_module_tree
  \/ export
  \/ Module_export
  \/ export_modules
  \/ build_bundles
  \/ export_benchmark
  \/ export_bundled
  \/ export_bundled_wbn
  \/ export_index

Spec == Init /\ [][Next]_vars
(* ============================== properties ============================= *)
Ids == DOMAIN heap
NonRootIds == Ids \ {<<>>}
Created == pc # "start"

\* Every run ends in one of these two positions, with its whole log.
Terminated == pc \in {"done", "failed"}
IsLeaf(id) == heap[id].children = <<>>
IsInner(id) == ~IsLeaf(id)

\* The position of a module in the module list.
PosOf(id) == CHOOSE i \in 1..Len(modules) : modules[i] = id

SymbolsAt(ids) == [k \in 1..Len(ids) |-> heap[ids[k]].symbol]

ScenarioRules == ("A" :> <<"A", "B">>) @@ ("B" :> <<"B", "B", "B">>)

\* C1: after create_module_tree the module list is a list whose length is
\* the closed-form size of the expansion to the configured depth; rules
\* {A: "AB", B: "BBB"} with depth 2 give children A,B, then A,B and B,B,B,
\* 7 modules in all.
C1_NodeCountClosedForm ==
  Created =>
    /\ ~modules_is_None
    /\ Len(modules) = TreeSize(options.rules, ROOT_AXIOM, options.depth)
    /\ (options.rules = ScenarioRules /\ options.depth = 2) =>
         /\ Len(modules) = 7
         /\ SymbolsAt(heap[<<>>].children) = <<"A", "B">>
         /\ SymbolsAt(heap[<<0>>].children) = <<"A", "B">>
         /\ SymbolsAt(heap[<<1>>].children) = <<"B", "B", "B">>

ModuleWrites == {k \in 1..Len(log) : log[k].op = "write"}
Mkdirs == {k \in 1..Len(log) : log[k].op = "mkdir"}
Pages == {k \in 1..Len(log) : log[k].op = "page"}
BundleCalls == {k \in 1..Len(log) : log[k].op \in {"gen-bundle", "rollup"}}

\* C2: with depth 0 the run completes without error: the root has no
\* children, the module list is the empty list, one module artifact is
\* written, no subdirectory is made, and the pages and the index are written.
C2_DepthZeroCompletes ==
  (options.depth = 0 /\ Created) =>
    /\ heap[<<>>].children = <<>>
    /\ ~modules_is_None /\ modules = <<>>
    /\ error \in {"none", "CalledProcessError"}
    /\ Cardinality(ModuleWrites) <= 1 /\ Mkdirs = {}
    /\ pc = "done" => /\ Cardinality(ModuleWrites) = 1
                      /\ Cardinality(Pages) = Len(benchmarks) + 1

Target(id) == PathJoinPath(OutDir(options), heap[id].path)
Subdir(id) == PathJoinPath(OutDir(options), heap[id].submodule_path)
Written(id) == \E k \in ModuleWrites : log[k].id = id

HasSizeEntry(symbol) ==
  symbol \in DOMAIN options.sizes /\ options.sizes[symbol] > 0

\* C3 as stated: a positive size entry for 'A' is the root's payload size,
\* and the root artifact has the helper and the call to it.
C3_RootTakesSizeEntry ==
  (Terminated /\ HasSizeEntry(ROOT_AXIOM)) =>
    /\ heap[<<>>].size = options.sizes[ROOT_AXIOM]
    /\ Written(<<>>) => files[Target(<<>>)].helper /\ files[Target(<<>>)].call_helper

\* C3 amended: the root's payload size is 0 whatever the size table, and
\* its artifact has no helper; a module other than the root has the entry of
\* its symbol (0 without one), and its artifact has the helper and the call
\* to it exactly when that size is not 0.
C3_RootSizeZero ==
  Terminated =>
      /\ heap[<<>>].size = 0
      /\ Written(<<>>) =>
           ~files[Target(<<>>)].helper /\ ~files[Target(<<>>)].call_helper
      /\ \A id \in NonRootIds :
           /\ heap[id].size = DictGet(options.sizes, heap[id].symbol, 0)
           /\ Written(id) =>
                /\ files[Target(id)].helper = (heap[id].size # 0)
                /\ files[Target(id)].call_helper = (heap[id].size # 0)

C3_Witness ==
  /\ HasSizeEntry(ROOT_AXIOM)
  /\ Terminated /\ Written(<<>>)
  /\ \E id \in NonRootIds : Written(id) /\ files[Target(id)].helper

Sorted == pc \in {"build_bundles", "export_html", "done"}

\* The order of full paths as strings.
PathStrLessEq(p, q) == PathStr(p) = PathStr(q) \/ StrLess(PathStr(p), PathStr(q))

\* C4: after export_modules the module list is in topological order: depth
\* never decreases along the list, modules of equal depth are in the order
\* of their full paths, and the parent of a module is before it.
C4_TopologicalOrder ==
  Sorted =>
    /\ \A i, j \in 1..Len(modules) :
         i < j =>
           /\ heap[modules[i]].depth <= heap[modules[j]].depth
           /\ heap[modules[i]].depth = heap[modules[j]].depth =>
                PathStrLessEq(heap[modules[i]].path, heap[modules[j]].path)
    /\ \A id \in NonRootIds :
         heap[id].parent # <<>> => PosOf(heap[id].parent) < PosOf(id)

\* The simple names of the ancestors of a module and its own, from the root.
RECURSIVE AncestorChain(_)
AncestorChain(id) ==
  IF id = <<>> THEN <<heap[id].simple_name>>
  ELSE Append(AncestorChain(heap[id].parent), heap[id].simple_name)

RECURSIVE JoinWith(_, _)
JoinWith(strs, sep) ==
  IF Len(strs) = 1 THEN Head(strs)
  ELSE Head(strs) \o sep \o JoinWith(Tail(strs), sep)

\* C5: the path of a module other than the root is its parent's
\* subdirectory (the directory of the parent's file joined with the
\* parent's simple name) joined with its qualified name and ".mjs", the
\* qualified name is the chain of simple names joined with "_", and no two
\* modules have the same path or the same qualified name.
C5_PathsAndNamesUnique ==
  pc = "created" =>
    /\ \A id \in NonRootIds :
         LET parent == heap[heap[id].parent]
             subdirectory == Append(PathParent(parent.path), parent.simple_name)
         IN /\ heap[id].name = JoinWith(AncestorChain(id), <<"_">>)
            /\ heap[id].path = Append(subdirectory, heap[id].name \o MjsSuffix)
    /\ \A a, b \in Ids :
         a # b => heap[a].path # heap[b].path /\ heap[a].name # heap[b].name
\* The tree of the same options with the other loading mode.
OtherModeHeap ==
  BuildHeap([options EXCEPT !.dynamic_imports = ~options.dynamic_imports])

\* The values of the entry functions of all modules of a tree.
EntryValues(h, evaluate_all) == [id \in DOMAIN h |-> EntryValue(id, h, evaluate_all)]

SumOfChildren(id, values) ==
  SumSeq([k \in 1..Len(heap[id].children) |-> values[heap[id].children[k]]])

\* C6 as stated: the entry function of a module returns 1 plus the sum of
\* its children's values, the root returns the number of modules of the
\* tree, and the value is the same in static and in dynamic mode.
C6_ValueIsOnePlusChildren ==
  pc = "created" =>
    \A evaluate_all \in BOOLEAN :
      LET values == EntryValues(heap, evaluate_all)
          others == EntryValues(OtherModeHeap, evaluate_all)
      IN /\ \A id \in Ids : values[id] = 1 + SumOfChildren(id, values)
         /\ values = others
         /\ values[<<>>] = Cardinality(Ids)

\* The base value of a module: 101 when it has a payload size and
\* document.evaluate_all is true, 1 otherwise.
BaseValue(id, evaluate_all) ==
  IF heap[id].size # 0 /\ evaluate_all THEN 101 ELSE 1

\* C6 amended: the entry function of a module returns its base value plus
\* the sum of its children's values, where the base value is 1, or 101 when
\* the module has a non-zero payload size and document.evaluate_all is true
\* (the helper returns a+100); the value is the same in static and in
\* dynamic mode, and with document.evaluate_all false the root returns the
\* number of modules of the tree.
C6_ValueIsBasePlusChildren ==
  pc = "created" =>
    \A evaluate_all \in BOOLEAN :
      LET values == EntryValues(heap, evaluate_all)
          others == EntryValues(OtherModeHeap, evaluate_all)
      IN /\ \A id \in Ids :
              values[id] = BaseValue(id, evaluate_all) + SumOfChildren(id, values)
         /\ values = others
         /\ ~evaluate_all => values[<<>>] = Cardinality(Ids)

C6_Witness ==
  /\ pc = "created"
  /\ \E id \in NonRootIds :
       /\ heap[id].size # 0 /\ IsInner(id)
       /\ EntryValue(id, heap, TRUE) > 101

PathOfPage(file_name) == PathJoin(OutDir(options), file_name)

\* C7: with dynamic imports the bundlers are never run and the index lists
\* the three pages unbundled, modulepreload and script-preload, all written;
\* with static imports the bundlers run after every module artifact is
\* written and before any page, and the index lists the rollup and the
\* webbundle pages as well.
C7_BundlesExactlyInStaticMode ==
  Terminated =>
    /\ options.dynamic_imports =>
         /\ BundleCalls = {}
         /\ pc = "done" =>
              /\ benchmarks = <<PathOfPage(UnbundledHtml), PathOfPage(ModulepreloadHtml),
                                PathOfPage(ScriptPreloadHtml)>>
              /\ Len(files[PathOfPage(IndexHtml)].benchmarks) = 3
    /\ ~options.dynamic_imports =>
         /\ \A b \in BundleCalls :
              /\ \A id \in Ids : \E w \in ModuleWrites : w < b /\ log[w].id = id
              /\ \A w \in ModuleWrites : w < b
              /\ \A p \in Pages : b < p
         /\ Pages # {} => \E g, r \in BundleCalls :
                            log[g].op = "gen-bundle" /\ log[r].op = "rollup"
         /\ pc = "done" =>
              /\ benchmarks = <<PathOfPage(UnbundledHtml), PathOfPage(ModulepreloadHtml),
                                PathOfPage(ScriptPreloadHtml), PathOfPage(RollupHtml),
                                PathOfPage(WebbundleHtml)>>
              /\ Len(files[PathOfPage(IndexHtml)].benchmarks) = 5
    /\ \A k \in 1..Len(benchmarks) :
         benchmarks[k] \in DOMAIN files /\ \E p \in Pages : log[p].path = benchmarks[k]

C7_Witness ==
  /\ pc = "done" /\ ~options.dynamic_imports
  /\ Len(benchmarks) = 5 /\ Len(modules) > 1

WouldCreate(d) ==
  \/ d = OutDir(options)
  \/ \E id \in Ids : IsInner(id) /\ d = Subdir(id)

\* C8 as stated: when a directory the export would create (the output
\* directory, or the subdirectory of a module with children) exists before
\* the export starts, the export aborts and writes no page and no index.
C8_ExistingDirectoryAborts ==
  (Created /\ \E d \in preexisting : WouldCreate(d)) =>
    Pages = {} /\ pc # "done"

\* C8 amended: when the subdirectory of a module with children exists
\* before the export starts, the export aborts with an error and writes no
\* page and no index; an existing output directory is accepted, and
\* FileExistsError is raised only by the mkdir of a module's subdirectory,
\* after that module's artifact is written.
C8_ExistingSubdirectoryAborts ==
  /\ (Created /\ \E id \in Ids : IsInner(id) /\ Subdir(id) \in preexisting) =>
       /\ Pages = {} /\ pc # "done"
       /\ pc \in {"created", "export_modules", "failed"}
  /\ error = "FileExistsError" =>
       /\ log # <<>> /\ log[Len(log)].op = "write"
       /\ IsInner(log[Len(log)].id)
       /\ Subdir(log[Len(log)].id) \in dirs

C8_Witness ==
  /\ error = "FileExistsError"
  /\ \E id \in Ids : IsInner(id) /\ Subdir(id) \in preexisting

ExportReturned ==
  \/ pc \in {"build_bundles", "export_html", "done"}
  \/ pc = "failed" /\ error \in {"TypeError", "CalledProcessError"}

WritesOf(id) == {k \in ModuleWrites : log[k].id = id}
MkdirsOf(id) == {k \in Mkdirs : log[k].id = id}

\* C9: in Module.export an artifact is written after the directory that
\* contains it is made and after the artifact of its parent is written; the
\* subdirectory of a module is made exactly when it has children, once, and
\* the artifact of each module is written once, at its path.
C9_ExportOrder ==
  Terminated =>
    /\ error # "FileNotFoundError"
    /\ \A w \in ModuleWrites :
         /\ log[w].path = Target(log[w].id)
         /\ \E d \in 1..(w - 1) :
              /\ log[d].op \in {"makedirs", "mkdir"}
              /\ log[d].path = PathParent(log[w].path)
         /\ log[w].id # <<>> =>
              \E v \in ModuleWrites : v < w /\ log[v].id = heap[log[w].id].parent
    /\ \A d \in Mkdirs : IsInner(log[d].id) /\ log[d].path = Subdir(log[d].id)
    /\ \A id \in Ids :
           /\ Cardinality(WritesOf(id)) <= 1
           /\ Cardinality(MkdirsOf(id)) <= 1
           /\ ExportReturned =>
                /\ Cardinality(WritesOf(id)) = 1
                /\ Cardinality(MkdirsOf(id)) = (IF IsInner(id) THEN 1 ELSE 0)

C9_Witness ==
  /\ ExportReturned
  /\ Cardinality(Mkdirs) >= 2
  /\ \E id \in Ids : IsLeaf(id) /\ heap[id].depth < options.depth

\* The artifacts of modules that have a positive payload size.
Padded == {id \in Ids : Written(id) /\ heap[id].size > 0}

====
